---- MODULE Spec2Model ----
(***************************************************************************)
(* Model of the spiffe-enable mutating admission webhook                   *)
(* (internal/webhook/webhook.go, spiffeEnableWebhook.Handle).              *)
(*                                                                         *)
(* A string the code splits, trims or joins is a sequence of chunks; its   *)
(* value is the concatenation of the chunks.  The chunks "," and " " are   *)
(* the only ones holding a comma or white space, so strings.Split and      *)
(* strings.TrimSpace act on chunks exactly as they act on characters.      *)
(* Names, paths and images that the code only compares are TLA+ strings.   *)
(***************************************************************************)
EXTENDS Integers, Sequences, FiniteSets, TLC

\* ---------------------------------------------------------------- bounds
MaxTokens == 2      \* comma-separated tokens in the inject annotation
MaxPasses == 3      \* consecutive admissions of the same pod
MaxInvocations == 2 \* invocations of Handle running at the same time
MaxSeed == 119      \* draws of the run time that fix the order it ranges over a map in

\* ------------------------------------------------------------- constants
enabledAnnotation == "spiffe.cofide.io/enabled"
injectAnnotation == "spiffe.cofide.io/inject"
debugAnnotation == "spiffe.cofide.io/debug"
spiffeHelperIncIntermediateAnnotation == "spiffe.cofide.io/spiffe-helper-include-intermediate-bundle"

injectAnnotationHelper == <<"helper">>
injectAnnotationProxy == <<"proxy">>

spiffeWLVolume == "spiffe-workload-api"
spiffeWLMountPath == "/spiffe-workload-api"
spiffeWLSocketEnvName == "SPIFFE_ENDPOINT_SOCKET"
spiffeWLSocket == <<"unix:///spiffe-workload-api/spire-agent.sock">>
spiffeWLSocketPath == "/spiffe-workload-api/spire-agent.sock"

envoyProxyPort == 10000
spiffeEnableCertVolumeName == "spiffe-enable-certs"
spiffeEnableCertDirectory == "/spiffe-enable"
debugUIContainerName == "spiffe-enable-ui"
debugUIPort == 8000

spiffeHelperImage == "ghcr.io/spiffe/spiffe-helper:0.10.0"
initHelperImage == "010438484483.dkr.ecr.eu-west-1.amazonaws.com/cofide/spiffe-enable-init:v0.1.0-alpha"
debugUIImage == "010438484483.dkr.ecr.eu-west-1.amazonaws.com/cofide/spiffe-enable-ui:v0.1.0-alpha"

SPIFFEHelperConfigVolumeName == "spiffe-helper-config"
SPIFFEHelperSidecarContainerName == "spiffe-helper"
SPIFFEHelperConfigContentEnvVar == "SPIFFE_HELPER_CONFIG"
SPIFFEHelperConfigMountPath == "/etc/spiffe-helper"
SPIFFEHelperInitContainerName == "inject-spiffe-helper-config"

EnvoyImage == "envoyproxy/envoy:v1.33-latest"
EnvoySidecarContainerName == "envoy-sidecar"
EnvoyConfigVolumeName == "envoy-config"
EnvoyConfigMountPath == "/etc/envoy"
EnvoyConfigContentEnvVar == "ENVOY_CONFIG_CONTENT"
EnvoyConfigInitContainerName == "inject-envoy-config"

\* ------------------------------------------------------ string functions
Comma == ","
Space == " "

\* index of the first chunk of s equal to c, 0 when there is none
RECURSIVE IndexFrom(_, _, _)
IndexFrom(s, c, i) ==
    IF i > Len(s) THEN 0
    ELSE IF s[i] = c THEN i
    ELSE IndexFrom(s, c, i + 1)

\* strings.Split(s, ","): always at least one token, "" gives [""]
RECURSIVE Split(_)
Split(s) ==
    LET i == IndexFrom(s, Comma, 1)
    IN  IF i = 0 THEN <<s>>
        ELSE <<SubSeq(s, 1, i - 1)>> \o Split(SubSeq(s, i + 1, Len(s)))

RECURSIVE TrimLeft(_)
TrimLeft(s) ==
    IF s # <<>> /\ Head(s) = Space THEN TrimLeft(Tail(s)) ELSE s

RECURSIVE TrimRight(_)
TrimRight(s) ==
    IF s # <<>> /\ s[Len(s)] = Space THEN TrimRight(SubSeq(s, 1, Len(s) - 1)) ELSE s

\* strings.TrimSpace
TrimSpace(s) == TrimRight(TrimLeft(s))

\* strings.Join(elems, sep)
RECURSIVE Join(_, _)
Join(elems, sep) ==
    IF elems = <<>> THEN <<>>
    ELSE IF Len(elems) = 1 THEN elems[1]
    ELSE elems[1] \o sep \o Join(Tail(elems), sep)

\* ------------------------------------------------- resource presence index
\* a presence check that only looks at the first volume
volumeExists_FirstOnly(pod, volumeName) ==
    pod.volumes # <<>> /\ pod.volumes[1].name = volumeName

volumeExists(pod, volumeName) ==
    \E i \in DOMAIN pod.volumes : pod.volumes[i].name = volumeName

containerExists(containers, containerName) ==
    \E i \in DOMAIN containers : containers[i].name = containerName

envVarExists(container, envVarName) ==
    \E i \in DOMAIN container.env : container.env[i].name = envVarName

\* a presence check that finds nothing
initContainerExists_Never(pod, containerName) == FALSE

initContainerExists(pod, containerName) ==
    containerExists(pod.initContainers, containerName)

\* ------------------------------------------------ identity-socket injector
spiffeVolumeMount == [name |-> spiffeWLVolume, path |-> spiffeWLMountPath, ro |-> TRUE]

spiffeSocketEnvVar == [name |-> spiffeWLSocketEnvName, value |-> spiffeWLSocket]

csiVolume == [name |-> spiffeWLVolume, kind |-> "csi"]

\* index of the first mount with the target's name and path, 0 when none
RECURSIVE FindMount(_, _, _)
FindMount(mounts, targetMount, i) ==
    IF i > Len(mounts) THEN 0
    ELSE IF mounts[i].name = targetMount.name /\ mounts[i].path = targetMount.path THEN i
    ELSE FindMount(mounts, targetMount, i + 1)

\* a version that appends the target whenever the exact mount is missing
ensureCSIVolumeMount_Append(container, targetMount) ==
    IF \E i \in DOMAIN container.mounts : container.mounts[i] = targetMount
    THEN [container |-> container, madeChange |-> FALSE]
    ELSE [container |-> [container EXCEPT !.mounts = Append(@, targetMount)],
          madeChange |-> TRUE]

\* the container after the call and the returned madeChange
ensureCSIVolumeMount(container, targetMount) ==
    LET mountIndex == FindMount(container.mounts, targetMount, 1)
        mountExists == mountIndex # 0 /\ container.mounts[mountIndex].ro = targetMount.ro
    IN  IF mountExists
        THEN [container |-> container, madeChange |-> FALSE]
        ELSE IF mountIndex # 0
        THEN [container |-> [container EXCEPT !.mounts[mountIndex].ro = targetMount.ro],
              madeChange |-> TRUE]
        ELSE [container |-> [container EXCEPT !.mounts = Append(@, targetMount)],
              madeChange |-> TRUE]

\* a version that leaves the variables of the container alone
ensureEnvVar_Skip(container, envVar) == container

ensureEnvVar(container, envVar) ==
    IF ~envVarExists(container, envVar.name)
    THEN [container EXCEPT !.env = Append(@, envVar)]
    ELSE container

debugSidecar ==
    [name |-> debugUIContainerName, image |-> debugUIImage,
     mounts |-> <<>>, env |-> <<>>, ports |-> <<debugUIPort>>]

\* a gate that only looks for the key
spiffeInjectionEnabled_KeyOnly(pod) ==
    enabledAnnotation \in DOMAIN pod.annotations

\* webhook.go 142-143
spiffeInjectionEnabled(pod) ==
    /\ enabledAnnotation \in DOMAIN pod.annotations
    /\ pod.annotations[enabledAnnotation] = <<"true">>

\* webhook.go 150-157
AddCSIVolume(pod) ==
    IF ~volumeExists(pod, spiffeWLVolume)
    THEN [pod EXCEPT !.volumes = Append(@, csiVolume)]
    ELSE pod

\* webhook.go 170-186
AddDebugSidecar(pod) ==
    IF /\ debugAnnotation \in DOMAIN pod.annotations
       /\ pod.annotations[debugAnnotation] = <<"true">>
       /\ ~containerExists(pod.containers, debugUIContainerName)
    THEN [pod EXCEPT !.containers = Append(@, debugSidecar)]
    ELSE pod

\* webhook.go 188-195
ProcessContainers(pod) ==
    [pod EXCEPT !.containers =
        [i \in DOMAIN pod.containers |->
            ensureEnvVar(ensureCSIVolumeMount(pod.containers[i], spiffeVolumeMount).container,
                         spiffeSocketEnvVar)]]

\* webhook.go 150-195: the mutations applied whenever the gate is enabled
InjectIdentitySocket(pod) == ProcessContainers(AddDebugSidecar(AddCSIVolume(pod)))

\* ------------------------------------------------------- config renderers
\* html/template escapes the value of an action in HTML text; the characters
\* it replaces are chunks of their own
EscapeChunk(c) ==
    CASE c = "<" -> "&lt;"
      [] c = ">" -> "&gt;"
      [] c = "&" -> "&amp;"
      [] c = "\"" -> "&#34;"
      [] c = "'" -> "&#39;"
      [] c = "+" -> "&#43;"
      [] OTHER -> c

HTMLEscape(s) == [i \in DOMAIN s |-> EscapeChunk(s[i])]

\* helper.NewSPIFFEHelperConfig: the rendered template, one chunk per piece
NewSPIFFEHelperConfig(params) ==
    <<"\nagent_address = \"">> \o HTMLEscape(params.AgentAddress)
    \o <<"\"\n", "include_federated_domains = true\n">>
    \o (IF params.IncludeIntermediateBundle
        THEN <<"\nadd_intermediates_to_bundle = true\n">>
        ELSE <<>>)
    \o <<"\ncmd = \"\"\ncmd_args = \"\"\n", "cert_dir = \"">>
    \o HTMLEscape(params.CertPath)
    \o <<"\"\n",
         "renew_signal = \"\"\n",
         "svid_file_name = \"tls.crt\"\n",
         "svid_key_file_name = \"tls.key\"\n",
         "svid_bundle_file_name = \"ca.pem\"\n",
         "jwt_bundle_file_name = \"cert.jwt\"\n",
         "jwt_svids = [{jwt_audience=\"aud\", jwt_svid_file_name=\"jwt_svid.token\"}]\n",
         "daemon_mode = true\n">>

\* the nodes of a parsed template: text, a field, the opening of an if, an end
Text(t) == [tok |-> "text", arg |-> t]
Field(f) == [tok |-> "field", arg |-> f]
IfField(f) == [tok |-> "if", arg |-> f]
End == [tok |-> "end", arg |-> ""]

\* a template that names a field the parameters do not have
spiffeHelperConfigTmpl_UnknownField ==
    <<Text("\nagent_address = \""), Field("AgentAddress"), Text("\"\n"),
      Text("cert_dir = \""), Field("CertDir"), Text("\"\n")>>

\* internal/helper/config.go 34-51
spiffeHelperConfigTmpl ==
    <<Text("\nagent_address = \""), Field("AgentAddress"), Text("\"\n"),
      Text("include_federated_domains = true\n"),
      IfField("IncludeIntermediateBundle"),
      Text("\nadd_intermediates_to_bundle = true\n"),
      End,
      Text("\ncmd = \"\"\ncmd_args = \"\"\n"),
      Text("cert_dir = \""), Field("CertPath"), Text("\"\n"),
      Text("renew_signal = \"\"\n"),
      Text("svid_file_name = \"tls.crt\"\n"),
      Text("svid_key_file_name = \"tls.key\"\n"),
      Text("svid_bundle_file_name = \"ca.pem\"\n"),
      Text("jwt_bundle_file_name = \"cert.jwt\"\n"),
      Text("jwt_svids = [{jwt_audience=\"aud\", jwt_svid_file_name=\"jwt_svid.token\"}]\n"),
      Text("daemon_mode = true\n"),
      Text("health_checks.listener_enabled = true\n")>>

\* template.Parse: every if is closed and no end stands alone
RECURSIVE ParseDepth(_, _, _)
ParseDepth(tmpl, i, depth) ==
    IF i > Len(tmpl) THEN depth
    ELSE IF tmpl[i].tok = "if" THEN ParseDepth(tmpl, i + 1, depth + 1)
    ELSE IF tmpl[i].tok = "end"
         THEN IF depth = 0 THEN -1 ELSE ParseDepth(tmpl, i + 1, depth - 1)
    ELSE ParseDepth(tmpl, i + 1, depth)

ParseOK(tmpl) == ParseDepth(tmpl, 1, 0) = 0

\* template.Execute from node i on, skipped being the number of open ifs whose
\* body is left out; the error of a field the data does not have ends it
RECURSIVE ExecuteFrom(_, _, _, _)
ExecuteFrom(tmpl, data, i, skipped) ==
    IF i > Len(tmpl) THEN [err |-> "nil", out |-> <<>>]
    ELSE LET n == tmpl[i]
         IN  IF skipped > 0
             THEN ExecuteFrom(tmpl, data, i + 1,
                              IF n.tok = "if" THEN skipped + 1
                              ELSE IF n.tok = "end" THEN skipped - 1
                              ELSE skipped)
             ELSE IF n.tok = "text"
             THEN LET r == ExecuteFrom(tmpl, data, i + 1, 0)
                  IN  [err |-> r.err, out |-> <<n.arg>> \o r.out]
             ELSE IF n.tok = "end"
             THEN ExecuteFrom(tmpl, data, i + 1, 0)
             ELSE IF n.arg \notin DOMAIN data
             THEN [err |-> "can't evaluate field", out |-> <<>>]
             ELSE IF n.tok = "if"
             THEN ExecuteFrom(tmpl, data, i + 1, IF data[n.arg] THEN 0 ELSE 1)
             ELSE LET r == ExecuteFrom(tmpl, data, i + 1, 0)
                  IN  [err |-> r.err, out |-> HTMLEscape(data[n.arg]) \o r.out]

\* a buffer kept at package level, which still holds what earlier calls wrote
Buffer_PackageLevel(written) == written

\* internal/helper/config.go 65 and internal/proxy/config.go 190: the
\* bytes.Buffer the template is executed into is declared in the call, so it
\* is empty at every call, whatever the earlier calls wrote
Buffer(written) == <<>>

\* internal/helper/config.go 59-71: the error and the helper, <<>> for nil
NewSPIFFEHelper(params, written) ==
    IF ~ParseOK(spiffeHelperConfigTmpl)
    THEN [err |-> "failed to parse spiffe-helper config template", out |-> <<>>]
    ELSE LET r == ExecuteFrom(spiffeHelperConfigTmpl, params, 1, 0)
         IN  IF r.err # "nil"
             THEN [err |-> "failed to render spiffe-helper config template with params",
                   out |-> <<>>]
             ELSE [err |-> "nil", out |-> <<[Cfg |-> Buffer(written) \o r.out]>>]

\* internal/proxy/config.go 28-30
EnvoyPort == 10000
EnvoyUID == 1337
DNSProxyPort == 15053

\* values as encoding/json sees them
JStr(s) == [t |-> "str", v |-> s]
JNum(n) == [t |-> "num", v |-> n]
JBool(b) == [t |-> "bool", v |-> b]
JMap(m) == [t |-> "map", v |-> m]
JList(l) == [t |-> "list", v |-> l]

\* encoding/json writes a string with these characters escaped
JSONEscapeChunk(c) ==
    CASE c = "\"" -> "\\\""
      [] c = "\\" -> "\\\\"
      [] c = "<" -> "\\u003c"
      [] c = ">" -> "\\u003e"
      [] c = "&" -> "\\u0026"
      [] OTHER -> c

JSONEscape(s) == [i \in DOMAIN s |-> JSONEscapeChunk(s[i])]

\* the keys of the bootstrap in byte order
jsonKeyOrder ==
    <<"@type", "address", "admin", "ads", "ads_config", "api_type", "cds_config",
      "cluster", "cluster_name", "clusters", "connect_timeout", "dynamic_resources",
      "endpoint", "endpoints", "envoy.extensions.upstreams.http.v3.HttpProtocolOptions",
      "envoy_grpc", "explicit_http_config", "grpc_services", "http2_protocol_options",
      "id", "lb_endpoints", "lds_config", "load_assignment", "name", "node",
      "port_value", "resource_api_version", "set_node_on_first_message_only",
      "socket_address", "static_resources", "transport_api_version", "type",
      "typed_extension_protocol_options">>

\* internal/proxy/config.go 106-177: the keys of cfg in the order the literal
\* inserts them into their maps
cfgKeyOrder ==
    <<"node", "id", "cluster", "admin", "address", "socket_address", "port_value",
      "dynamic_resources", "ads_config", "api_type", "transport_api_version",
      "grpc_services", "envoy_grpc", "cluster_name", "set_node_on_first_message_only",
      "cds_config", "resource_api_version", "ads", "lds_config", "static_resources",
      "clusters", "name", "type", "connect_timeout", "typed_extension_protocol_options",
      "envoy.extensions.upstreams.http.v3.HttpProtocolOptions", "@type",
      "explicit_http_config", "http2_protocol_options", "load_assignment", "endpoints",
      "lb_endpoints", "endpoint">>

\* the keys of a map taken one at a time, the draw deciding which one comes next
RECURSIVE Permute(_, _)
Permute(held, draw) ==
    IF Len(held) = 0 THEN <<>>
    ELSE LET n == Len(held)
             i == (draw % n) + 1
         IN  <<held[i]>>
             \o Permute(SubSeq(held, 1, i - 1) \o SubSeq(held, i + 1, n), draw \div n)

\* the order in which the run time ranges over a map in one call: the language
\* leaves it unspecified, so it is any order of the keys the map holds, the
\* rotations of the insertion order among them; the draws 0..MaxSeed give every
\* order of a map of up to five keys, the largest of cfg
mapRange(keys, seed) ==
    Permute(SelectSeq(cfgKeyOrder, LAMBDA k : k \in keys), seed)

\* the position of a key in byte order
KeyRank(k) == CHOOSE i \in DOMAIN jsonKeyOrder : jsonKeyOrder[i] = k

\* a sorted sequence of keys with one more key put at its place
RECURSIVE InsertKey(_, _, _)
InsertKey(sorted, k, i) ==
    IF i > Len(sorted) THEN Append(sorted, k)
    ELSE IF KeyRank(k) < KeyRank(sorted[i])
    THEN SubSeq(sorted, 1, i - 1) \o <<k>> \o SubSeq(sorted, i, Len(sorted))
    ELSE InsertKey(sorted, k, i + 1)

RECURSIVE SortKeys(_, _)
SortKeys(ranged, i) ==
    IF i > Len(ranged) THEN <<>>
    ELSE InsertKey(SortKeys(ranged, i + 1), ranged[i], 1)

\* encoding/json collects the keys of a map by ranging over it and sorts them
\* before it writes them
sortedMapKeys(keys, seed) == SortKeys(mapRange(keys, seed), 1)

Indent(depth) == [i \in 1..depth |-> "  "]

\* json.MarshalIndent(v, "", "  ")
RECURSIVE MarshalIndent(_, _, _)
RECURSIVE MarshalFields(_, _, _, _, _)
RECURSIVE MarshalItems(_, _, _, _)
MarshalIndent(v, depth, seed) ==
    CASE v.t = "str" -> <<"\"">> \o JSONEscape(v.v) \o <<"\"">>
      [] v.t = "num" -> <<ToString(v.v)>>
      [] v.t = "bool" -> <<IF v.v THEN "true" ELSE "false">>
      [] v.t = "map" ->
            IF DOMAIN v.v = {} THEN <<"{}">>
            ELSE <<"{">>
                 \o MarshalFields(v.v, sortedMapKeys(DOMAIN v.v, seed), 1, depth + 1, seed)
                 \o <<"\n">> \o Indent(depth) \o <<"}">>
      [] v.t = "list" ->
            IF Len(v.v) = 0 THEN <<"[]">>
            ELSE <<"[">> \o MarshalItems(v.v, 1, depth + 1, seed)
                 \o <<"\n">> \o Indent(depth) \o <<"]">>

MarshalFields(m, keys, i, depth, seed) ==
    IF i > Len(keys) THEN <<>>
    ELSE (IF i > 1 THEN <<",">> ELSE <<>>)
         \o <<"\n">> \o Indent(depth) \o <<"\"", keys[i], "\"", ": ">>
         \o MarshalIndent(m[keys[i]], depth, seed)
         \o MarshalFields(m, keys, i + 1, depth, seed)

MarshalItems(l, i, depth, seed) ==
    IF i > Len(l) THEN <<>>
    ELSE (IF i > 1 THEN <<",">> ELSE <<>>)
         \o <<"\n">> \o Indent(depth)
         \o MarshalIndent(l[i], depth, seed)
         \o MarshalItems(l, i + 1, depth, seed)

\* a rule of the chain: what it matches (-1, "any" and 0..65535 match all) and
\* its verdict
Rule(skuid, l4proto, daddr, dportLo, dportHi, action, to) ==
    [skuid |-> skuid, l4proto |-> l4proto, daddr |-> daddr,
     dportLo |-> dportLo, dportHi |-> dportHi, action |-> action, to |-> to]

AnyAddress == [family |-> "any", net |-> <<>>, bits |-> 0]

\* a chain that redirects DNS before it lets the proxy's own traffic go
nftablesSetupScript_DNSFirst(p) ==
    <<Rule(-1, "udp", AnyAddress, 53, 53, "redirect", p.DNSProxyPort),
      Rule(-1, "tcp", AnyAddress, 53, 53, "redirect", p.DNSProxyPort),
      Rule(p.EnvoyUID, "any", AnyAddress, 0, 65535, "return", 0),
      Rule(-1, "tcp", AnyAddress, p.EnvoyPort, p.EnvoyPort, "return", 0),
      Rule(-1, "tcp", AnyAddress, 9901, 9901, "return", 0),
      Rule(-1, "tcp", [family |-> "ip", net |-> <<127, 0, 0, 1>>, bits |-> 8],
           1, 65535, "redirect", p.EnvoyPort),
      Rule(-1, "tcp", [family |-> "ip6", net |-> <<0, 0, 0, 0, 0, 0, 0, 1>>, bits |-> 128],
           1, 65535, "redirect", p.EnvoyPort)>>

\* internal/proxy/config.go 48-67: the rules of chain envoy_output as the
\* template renders them from NftablesParams, top to bottom
nftablesSetupScript(p) ==
    <<Rule(p.EnvoyUID, "any", AnyAddress, 0, 65535, "return", 0),
      Rule(-1, "udp", AnyAddress, 53, 53, "redirect", p.DNSProxyPort),
      Rule(-1, "tcp", AnyAddress, 53, 53, "redirect", p.DNSProxyPort),
      Rule(-1, "tcp", AnyAddress, p.EnvoyPort, p.EnvoyPort, "return", 0),
      Rule(-1, "tcp", AnyAddress, 9901, 9901, "return", 0),
      Rule(-1, "tcp", [family |-> "ip", net |-> <<127, 0, 0, 1>>, bits |-> 8],
           1, 65535, "redirect", p.EnvoyPort),
      Rule(-1, "tcp", [family |-> "ip6", net |-> <<0, 0, 0, 0, 0, 0, 0, 1>>, bits |-> 128],
           1, 65535, "redirect", p.EnvoyPort)>>

\* internal/proxy/config.go 92-201; seed is the order the run time ranges over
\* maps in during this call, written what earlier calls rendered
NewEnvoy(params, seed, written) ==
    LET NodeID == IF params.NodeID = <<>> THEN <<"node">> ELSE params.NodeID
        ClusterName == IF params.ClusterName = <<>> THEN <<"cluster">> ELSE params.ClusterName
        AdminAddress == IF params.AdminAddress = <<>> THEN <<"127.0.0.1">> ELSE params.AdminAddress
        AdminPort == IF params.AdminPort = 0 THEN 9901 ELSE params.AdminPort
        empty == JMap(<<>>)
        socket(address, port) ==
            JMap([address |-> JMap([socket_address |->
                JMap([address |-> JStr(address), port_value |-> JNum(port)])])])
        xds == [resource_api_version |-> JStr(<<"V3">>), ads |-> empty]
        cfg == JMap([
            node |-> JMap([id |-> JStr(NodeID), cluster |-> JStr(ClusterName)]),
            admin |-> socket(AdminAddress, AdminPort),
            dynamic_resources |-> JMap([
                ads_config |-> JMap([
                    api_type |-> JStr(<<"GRPC">>),
                    transport_api_version |-> JStr(<<"V3">>),
                    grpc_services |-> JList(<<JMap([envoy_grpc |->
                        JMap([cluster_name |-> JStr(<<"xds_cluster">>)])])>>),
                    set_node_on_first_message_only |-> JBool(TRUE)]),
                cds_config |-> JMap(xds),
                lds_config |-> JMap(xds)]),
            static_resources |-> JMap([clusters |-> JList(<<JMap([
                name |-> JStr(<<"xds_cluster">>),
                type |-> JStr(<<"LOGICAL_DNS">>),
                connect_timeout |-> JStr(<<"5s">>),
                typed_extension_protocol_options |-> JMap(
                    "envoy.extensions.upstreams.http.v3.HttpProtocolOptions" :> JMap(
                        ("@type" :> JStr(<<"type.googleapis.com/envoy.extensions.upstreams.http.v3.HttpProtocolOptions">>))
                        @@ [explicit_http_config |-> JMap([http2_protocol_options |-> empty])])),
                load_assignment |-> JMap([
                    cluster_name |-> JStr(<<"xds_cluster">>),
                    endpoints |-> JList(<<JMap([lb_endpoints |-> JList(<<JMap([endpoint |->
                        socket(params.AgentXDSService, params.AgentXDSPort)])>>)])>>)])])>>)])])
        nftTablesParams == [EnvoyUID |-> EnvoyUID, EnvoyPort |-> EnvoyPort,
                            DNSProxyPort |-> DNSProxyPort]
    IN  [err |-> "nil",
         out |-> <<[InitScript |-> Buffer(written) \o nftablesSetupScript(nftTablesParams),
                    Cfg |-> MarshalIndent(cfg, 0, seed)]>>]

\* whether a rule matches a packet
Matches(rule, pkt) ==
    /\ rule.skuid = -1 \/ rule.skuid = pkt.uid
    /\ rule.l4proto = "any"
        \/ (rule.l4proto = pkt.l4proto /\ rule.dportLo <= pkt.dport /\ pkt.dport <= rule.dportHi)
    /\ rule.daddr.family = "any"
        \/ (/\ rule.daddr.family = pkt.daddr.family
            /\ LET unit == IF rule.daddr.family = "ip" THEN 8 ELSE 16
               IN  \A i \in 1..(rule.daddr.bits \div unit) :
                       rule.daddr.net[i] = pkt.daddr.addr[i])

\* the verdict of a base chain with policy accept: the first rule that
\* matches decides, return and the end of the chain accept the packet as it is
RECURSIVE Evaluate(_, _, _)
Evaluate(rules, pkt, i) ==
    IF i > Len(rules) THEN [action |-> "accept", to |-> 0]
    ELSE IF Matches(rules[i], pkt)
    THEN IF rules[i].action = "redirect"
         THEN [action |-> "redirect", to |-> rules[i].to]
         ELSE [action |-> "accept", to |-> 0]
    ELSE Evaluate(rules, pkt, i + 1)

\* internal/proxy/config.go 240-267
GetSidecarContainer ==
    [name |-> EnvoySidecarContainerName, image |-> "docker.io/istio/proxyv2:1.26.4",
     mounts |-> <<[name |-> EnvoyConfigVolumeName, path |-> EnvoyConfigMountPath, ro |-> FALSE],
                  spiffeVolumeMount>>,
     env |-> <<>>, ports |-> <<EnvoyPort>>, runAsUser |-> EnvoyUID]

\* json.MarshalIndent of the proxy bootstrap built from the fixed parameters
envoyConfigJSON == <<"{envoy bootstrap: node, cluster, admin 9901, xds cofide-agent.cofide.svc.cluster.local:18001}">>

\* --------------------------------------------------- capability injectors
emptyDirVolume(volumeName) == [name |-> volumeName, kind |-> "emptyDir"]

envoyInitContainer ==
    [name |-> EnvoyConfigInitContainerName, image |-> initHelperImage,
     mounts |-> <<[name |-> EnvoyConfigVolumeName, path |-> EnvoyConfigMountPath, ro |-> FALSE]>>,
     env |-> <<[name |-> EnvoyConfigContentEnvVar, value |-> envoyConfigJSON]>>,
     ports |-> <<>>]

envoySidecar ==
    [name |-> EnvoySidecarContainerName, image |-> EnvoyImage,
     mounts |-> <<[name |-> EnvoyConfigVolumeName, path |-> EnvoyConfigMountPath, ro |-> FALSE]>>,
     env |-> <<>>,
     ports |-> <<envoyProxyPort>>]

\* a flag that only looks for the key
incIntermediateBundle_KeyOnly(pod) ==
    spiffeHelperIncIntermediateAnnotation \in DOMAIN pod.annotations

\* webhook.go 342-346
incIntermediateBundle(pod) ==
    /\ spiffeHelperIncIntermediateAnnotation \in DOMAIN pod.annotations
    /\ pod.annotations[spiffeHelperIncIntermediateAnnotation] = <<"true">>

helperInitContainer(spiffeHelperConfig) ==
    [name |-> SPIFFEHelperInitContainerName, image |-> initHelperImage,
     mounts |-> <<[name |-> SPIFFEHelperConfigVolumeName, path |-> SPIFFEHelperConfigMountPath, ro |-> FALSE],
                  [name |-> spiffeEnableCertVolumeName, path |-> spiffeEnableCertDirectory, ro |-> FALSE]>>,
     env |-> <<[name |-> SPIFFEHelperConfigContentEnvVar, value |-> spiffeHelperConfig]>>,
     ports |-> <<>>]

helperSidecar ==
    [name |-> SPIFFEHelperSidecarContainerName, image |-> spiffeHelperImage,
     mounts |-> <<[name |-> SPIFFEHelperConfigVolumeName, path |-> SPIFFEHelperConfigMountPath, ro |-> TRUE],
                  [name |-> spiffeEnableCertVolumeName, path |-> spiffeEnableCertDirectory, ro |-> FALSE],
                  spiffeVolumeMount>>,
     env |-> <<>>,
     ports |-> <<>>]

\* a version that adds no volume
EnsureVolume_Never(pod, volume) == pod

EnsureVolume(pod, volume) ==
    IF ~volumeExists(pod, volume.name)
    THEN [pod EXCEPT !.volumes = Append(@, volume)]
    ELSE pod

\* a version that adds the init container at the end
PrependInitContainer_Append(pod, initContainer) ==
    IF ~initContainerExists(pod, initContainer.name)
    THEN [pod EXCEPT !.initContainers = Append(@, initContainer)]
    ELSE pod

\* a version that keeps only the injected init container
PrependInitContainer_Replace(pod, initContainer) ==
    IF ~initContainerExists(pod, initContainer.name)
    THEN [pod EXCEPT !.initContainers = <<initContainer>>]
    ELSE pod

PrependInitContainer(pod, initContainer) ==
    IF ~initContainerExists(pod, initContainer.name)
    THEN [pod EXCEPT !.initContainers = <<initContainer>> \o @]
    ELSE pod

\* a version that appends without looking for the name
AppendSidecar_Always(pod, sidecar) ==
    [pod EXCEPT !.containers = Append(@, sidecar)]

AppendSidecar(pod, sidecar) ==
    IF ~containerExists(pod.containers, sidecar.name)
    THEN [pod EXCEPT !.containers = Append(@, sidecar)]
    ELSE pod

\* webhook.go 235-318, case injectAnnotationProxy
InjectProxy(pod) ==
    AppendSidecar(
        PrependInitContainer(
            EnsureVolume(pod, emptyDirVolume(EnvoyConfigVolumeName)),
            envoyInitContainer),
        envoySidecar)

\* webhook.go 320-399, case injectAnnotationHelper
InjectHelper(pod) ==
    LET configParams == [AgentAddress |-> <<spiffeWLSocketPath>>,
                         CertPath |-> <<spiffeEnableCertDirectory>>,
                         IncludeIntermediateBundle |-> incIntermediateBundle(pod)]
        spiffeHelperConfig == NewSPIFFEHelperConfig(configParams)
    IN  AppendSidecar(
            PrependInitContainer(
                EnsureVolume(
                    EnsureVolume(pod, emptyDirVolume(SPIFFEHelperConfigVolumeName)),
                    emptyDirVolume(spiffeEnableCertVolumeName)),
                helperInitContainer(spiffeHelperConfig)),
            helperSidecar)

\* webhook.go 234: the switch is on the token as split, not on the trimmed one
InjectMode(pod, mode) ==
    IF mode = injectAnnotationProxy THEN InjectProxy(pod)
    ELSE IF mode = injectAnnotationHelper THEN InjectHelper(pod)
    ELSE pod

\* webhook.go 233-401: the injection loop from position i on
RECURSIVE InjectFrom(_, _, _)
InjectFrom(pod, toInject, i) ==
    IF i > Len(toInject) THEN pod
    ELSE InjectFrom(InjectMode(pod, toInject[i]), toInject, i + 1)

\* --------------------------------------------------------- mode validation
allowedModes == {injectAnnotationHelper, injectAnnotationProxy}

\* a validation that skips invalid tokens instead of collecting them
invalidModes_Permissive(toInject) == <<>>

\* a validation that stops at the first invalid token
invalidModes_FirstOnly(toInject) ==
    LET trimmedMode == [i \in DOMAIN toInject |-> TrimSpace(toInject[i])]
        invalid == SelectSeq(trimmedMode, LAMBDA t : t # <<>> /\ t \notin allowedModes)
    IN  IF invalid = <<>> THEN <<>> ELSE <<invalid[1]>>

\* a validation that does not skip the empty tokens
invalidModes_NoSkip(toInject) ==
    LET trimmedMode == [i \in DOMAIN toInject |-> TrimSpace(toInject[i])]
    IN  SelectSeq(trimmedMode, LAMBDA t : t \notin allowedModes)

\* webhook.go 211-220
invalidModes(toInject) ==
    LET trimmedMode == [i \in DOMAIN toInject |-> TrimSpace(toInject[i])]
    IN  SelectSeq(trimmedMode, LAMBDA t : t # <<>> /\ t \notin allowedModes)

\* getKeys ranges over a Go map: any order of the keys can come out
getKeys(m) ==
    {ks \in [1..Cardinality(m) -> m] : \A i, j \in DOMAIN ks : i # j => ks[i] # ks[j]}

\* fmt.Errorf("invalid mode(s) found in injection list: %v. Allowed modes are: %v", ...)
DeniedMessage(invalid, keys) ==
    <<"invalid mode(s) found in injection list: ">> \o Join(invalid, <<Comma, Space>>)
    \o <<". Allowed modes are: ", "[">> \o Join(keys, <<Space>>) \o <<"]">>

\* ---------------------------------------------------------------- responses
NoPatch == <<>>

NoResponse == [kind |-> "none", allowed |-> FALSE, code |-> 0, reason |-> <<>>, patch |-> NoPatch]

\* admission.Errored(code, err)
Errored(code, err) ==
    [kind |-> "errored", allowed |-> FALSE, code |-> code, reason |-> err, patch |-> NoPatch]

\* admission.Allowed(message)
Allowed(message) ==
    [kind |-> "allowed", allowed |-> TRUE, code |-> 200, reason |-> message, patch |-> NoPatch]

\* admission.Denied(message)
Denied(message) ==
    [kind |-> "denied", allowed |-> FALSE, code |-> 403, reason |-> message, patch |-> NoPatch]

\* operations turning list a into list b, compared position by position
DiffList(list, a, b) ==
    LET n == IF Len(a) > Len(b) THEN Len(a) ELSE Len(b)
        ops == [i \in 1..n |->
                  IF i > Len(b) THEN [op |-> "remove", list |-> list, index |-> i, value |-> a[i]]
                  ELSE IF i > Len(a) THEN [op |-> "add", list |-> list, index |-> i, value |-> b[i]]
                  ELSE IF a[i] # b[i] THEN [op |-> "replace", list |-> list, index |-> i, value |-> b[i]]
                  ELSE [op |-> "same", list |-> list, index |-> i, value |-> b[i]]]
    IN  SelectSeq(ops, LAMBDA o : o.op # "same")

\* admission.PatchResponseFromRaw(req.Object.Raw, marshaledPod)
PatchResponseFromRaw(original, mutated) ==
    [kind |-> "patch", allowed |-> TRUE, code |-> 200, reason |-> <<>>,
     patch |-> DiffList("volumes", original.volumes, mutated.volumes)
               \o DiffList("containers", original.containers, mutated.containers)
               \o DiffList("initContainers", original.initContainers, mutated.initContainers)]

\* the API server applying the returned patch to the object it sent
RECURSIVE ApplyPatch(_, _)
ApplyPatch(object, patch) ==
    IF patch = <<>> THEN object
    ELSE LET o == Head(patch)
             l == object[o.list]
             nl == IF o.op = "add" THEN Append(l, o.value)
                   ELSE IF o.op = "replace" THEN [l EXCEPT ![o.index] = o.value]
                   ELSE SubSeq(l, 1, Len(l) - 1)
         IN  ApplyPatch([object EXCEPT ![o.list] = nl], Tail(patch))

\* ------------------------------------------------------------------ inputs
\* the zero value of corev1.Pod, the working copy before decoding
ZeroPod == [annotations |-> <<>>, volumes |-> <<>>, containers |-> <<>>, initContainers |-> <<>>]

Absent == <<"<absent>">>

Opt(key, value) == IF value = Absent THEN <<>> ELSE key :> value

Annotations(enabled, inject, debug, inc) ==
    Opt(enabledAnnotation, enabled) @@ Opt(injectAnnotation, inject)
    @@ Opt(debugAnnotation, debug) @@ Opt(spiffeHelperIncIntermediateAnnotation, inc)

\* tokens a user may write between the commas of the inject annotation
TokenSet ==
    {<<>>, <<"helper">>, <<"proxy">>, <<"bogus">>, <<"csi">>,
     <<Space, "helper">>, <<"proxy", Space>>, <<Space, "bogus">>, <<Space>>}

TokenLists == UNION {[1..n -> TokenSet] : n \in 1..MaxTokens}

InjectValues == {Join(ts, <<Comma>>) : ts \in TokenLists}

EnabledValues == {Absent, <<"true">>, <<"True">>, <<"TRUE">>, <<"1">>, <<>>, <<"false">>}

FlagValues == {Absent, <<"true">>, <<"false">>}

\* values of the include-intermediate-bundle annotation
IncValues == FlagValues \cup {<<"True">>}

Container(name, mounts, env) ==
    [name |-> name, image |-> "registry.example/" \o name, mounts |-> mounts, env |-> env, ports |-> <<>>]

rwMount == [name |-> spiffeWLVolume, path |-> spiffeWLMountPath, ro |-> FALSE]
otherPathMount == [name |-> spiffeWLVolume, path |-> "/run/spiffe", ro |-> TRUE]
dataMount == [name |-> "data", path |-> "/data", ro |-> FALSE]

MountChoices ==
    {<<>>, <<spiffeVolumeMount>>, <<rwMount>>, <<otherPathMount>>, <<dataMount>>,
     <<dataMount, rwMount>>, <<rwMount, dataMount>>, <<spiffeVolumeMount, dataMount>>}

EnvChoices ==
    {<<>>, <<spiffeSocketEnvVar>>,
     <<[name |-> spiffeWLSocketEnvName, value |-> <<"unix:///tmp/agent.sock">>]>>,
     <<[name |-> "LOG_LEVEL", value |-> <<"debug">>]>>}

VolumeChoices ==
    {<<>>, <<[name |-> "data", kind |-> "emptyDir"]>>,
     <<[name |-> spiffeWLVolume, kind |-> "hostPath"]>>,
     <<[name |-> SPIFFEHelperConfigVolumeName, kind |-> "configMap"],
       [name |-> "data", kind |-> "emptyDir"]>>,
     <<[name |-> EnvoyConfigVolumeName, kind |-> "configMap"],
       [name |-> spiffeEnableCertVolumeName, kind |-> "secret"]>>}

staleHelperConfig ==
    NewSPIFFEHelperConfig([AgentAddress |-> <<"/old/agent.sock">>, CertPath |-> <<"/old">>,
                           IncludeIntermediateBundle |-> TRUE])

InitContainerChoices ==
    {<<>>, <<Container("setup", <<>>, <<>>)>>,
     <<Container("setup", <<>>, <<>>), helperInitContainer(staleHelperConfig)>>,
     <<Container(EnvoyConfigInitContainerName, <<>>, <<>>), Container("setup", <<dataMount>>, <<>>)>>}

SidecarChoices ==
    {<<>>, <<Container(SPIFFEHelperSidecarContainerName, <<>>, <<>>)>>,
     <<Container(EnvoySidecarContainerName, <<dataMount>>, <<>>)>>,
     <<Container(debugUIContainerName, <<>>, <<>>)>>,
     <<Container("db", <<otherPathMount>>, <<>>)>>}

PodSpec(volumes, mounts, env, sidecars, initContainers) ==
    [annotations |-> <<>>, volumes |-> volumes,
     containers |-> <<Container("app", mounts, env)>> \o sidecars,
     initContainers |-> initContainers]

PlainPod == PodSpec(<<>>, <<>>, <<>>, <<>>, <<>>)

\* pods varying in their lists of volumes, sidecars and init containers, and
\* pods varying in the mounts and variables of their first container
PodShapes ==
    {PodSpec(v, <<>>, <<>>, s, i) :
        v \in VolumeChoices, s \in SidecarChoices, i \in InitContainerChoices}
    \cup {PodSpec(<<>>, m, e, <<>>, <<>>) : m \in MountChoices, e \in EnvChoices}

\* every annotation combination on two pods
AnnotatedPods ==
    {[p EXCEPT !.annotations = Annotations(e, i, d, b)] :
        p \in {PlainPod, PodSpec(<<>>, <<>>, <<>>, <<>>, <<Container("setup", <<>>, <<>>)>>)},
        e \in EnabledValues, i \in InjectValues \cup {Absent},
        d \in {Absent, <<"true">>}, b \in {Absent, <<"true">>}}

ValidInjectValues ==
    {Absent, <<"helper">>, <<"proxy">>, <<"helper", Comma, "proxy">>, <<"proxy", Comma, "helper">>}

\* every pod shape under the valid mode lists, the gate enabled or not
ShapedPods ==
    {[p EXCEPT !.annotations = Annotations(<<"true">>, i, d, b)] :
        p \in PodShapes, i \in ValidInjectValues, d \in FlagValues, b \in IncValues}
    \cup {[p EXCEPT !.annotations = Annotations(e, i, <<"true">>, Absent)] :
        p \in PodShapes, i \in ValidInjectValues, e \in {Absent, <<"TRUE">>}}

Requests ==
    {[rawOK |-> FALSE, object |-> ZeroPod]}
    \cup {[rawOK |-> TRUE, object |-> p] : p \in AnnotatedPods \cup ShapedPods}

\* ------------------------------------------------------------ state machine
VARIABLES
    req,        \* the admission request: whether its raw object decodes, and the object
    pod,        \* the working copy Handle mutates
    pc,         \* position of the invocation
    toInject,   \* the tokens of the inject annotation as split
    idx,        \* position of the injection loop in toInject
    resp,       \* the admission response
    pass,       \* number of the admission of this pod
    fault,      \* the call of this invocation that returned an error, if any
    inv,        \* the invocations that run concurrently, each with its locals
    copies,     \* the working copies of the concurrent invocations
    rparams,    \* the parameters the config renderer is called with
    rendered,   \* what the config renderer returned
    again,      \* what a second call with the same parameters returned
    packet,     \* an outgoing packet of the pod
    verdict     \* what the rule chain of the init script decides for the packet

vars == <<req, pod, pc, toInject, idx, resp, pass, fault, inv, copies, rparams, rendered,
         again, packet, verdict>>

\* the state outside one invocation of Handle
offstage == <<inv, copies, rparams, rendered, again, packet, verdict>>

NoParams == [AgentAddress |-> <<>>, CertPath |-> <<>>, IncludeIntermediateBundle |-> FALSE]
NotRendered == <<"<not rendered>">>
NoPacket == [uid |-> 0, l4proto |-> "none", daddr |-> [family |-> "none", addr |-> <<>>], dport |-> 0]

NoVerdict == [action |-> "none", to |-> 0]
NoResult == [err |-> "<not called>", out |-> <<>>]

\* no second call of a renderer and no packet under evaluation
RulesIdle ==
    /\ again = NotRendered
    /\ packet = NoPacket
    /\ verdict = NoVerdict

\* no concurrent invocation and no direct call of the renderer
OffstageIdle ==
    /\ inv = <<>>
    /\ copies = <<>>
    /\ rparams = NoParams
    /\ rendered = NotRendered
    /\ RulesIdle

Init ==
    /\ req \in Requests
    /\ pod = ZeroPod
    /\ pc = "received"
    /\ toInject = <<>>
    /\ idx = 1
    /\ resp = NoResponse
    /\ pass = 1
    /\ fault = "none"
    /\ OffstageIdle

\* a decode whose error is not returned
Decode_Continue ==
    /\ pc = "received"
    /\ pod' = IF req.rawOK THEN req.object ELSE pod
    /\ pc' = "decoded"
    /\ UNCHANGED <<req, toInject, idx, resp, pass, fault, offstage>>

\* webhook.go 134-138
Decode ==
    /\ pc = "received"
    /\ IF req.rawOK
       THEN /\ pod' = req.object
            /\ pc' = "decoded"
            /\ resp' = resp
       ELSE /\ resp' = Errored(400, <<"decode error">>)
            /\ pc' = "done"
            /\ pod' = pod
    /\ UNCHANGED <<req, toInject, idx, pass, fault, offstage>>

\* webhook.go 142-148
GateCheck ==
    /\ pc = "decoded"
    /\ IF spiffeInjectionEnabled(pod)
       THEN /\ pc' = "gated"
            /\ resp' = resp
       ELSE /\ resp' = Allowed(<<"Injection criteria not met">>)
            /\ pc' = "done"
    /\ UNCHANGED <<req, pod, toInject, idx, pass, fault, offstage>>

\* webhook.go 150-195
InjectIdentity ==
    /\ pc = "gated"
    /\ pod' = InjectIdentitySocket(pod)
    /\ pc' = "identity"
    /\ UNCHANGED <<req, toInject, idx, resp, pass, fault, offstage>>

\* webhook.go 197-230
ValidateModes ==
    /\ pc = "identity"
    /\ IF injectAnnotation \notin DOMAIN pod.annotations
       THEN /\ pc' = "inject"
            /\ UNCHANGED <<toInject, idx, resp>>
       ELSE LET split == Split(pod.annotations[injectAnnotation])
                invalid == invalidModes(split)
            IN  IF Len(invalid) > 0
                THEN /\ \E keys \in getKeys(allowedModes) :
                            resp' = Denied(DeniedMessage(invalid, keys))
                     /\ pc' = "done"
                     /\ UNCHANGED <<toInject, idx>>
                ELSE /\ toInject' = split
                     /\ idx' = 1
                     /\ pc' = "inject"
                     /\ resp' = resp
    /\ UNCHANGED <<req, pod, pass, fault, offstage>>

\* webhook.go 233-401, one round of the loop
InjectNext ==
    /\ pc = "inject"
    /\ idx <= Len(toInject)
    /\ pod' = InjectMode(pod, toInject[idx])
    /\ idx' = idx + 1
    /\ UNCHANGED <<req, pc, toInject, resp, pass, fault, offstage>>

\* webhook.go 404-410
Marshal ==
    /\ pc = "inject"
    /\ idx > Len(toInject)
    /\ resp' = PatchResponseFromRaw(req.object, pod)
    /\ pc' = "done"
    /\ UNCHANGED <<req, pod, toInject, idx, pass, fault, offstage>>

\* the patched object comes back for admission (an update of the pod)
Readmit ==
    /\ pc = "done"
    /\ resp.kind = "patch"
    /\ pass < MaxPasses
    /\ req' = [rawOK |-> TRUE, object |-> ApplyPatch(req.object, resp.patch)]
    /\ pod' = ZeroPod
    /\ pc' = "received"
    /\ toInject' = <<>>
    /\ idx' = 1
    /\ resp' = NoResponse
    /\ pass' = pass + 1
    /\ UNCHANGED <<fault, offstage>>

Next ==
    \/ Decode
    \/ GateCheck
    \/ InjectIdentity
    \/ ValidateModes
    \/ InjectNext
    \/ Marshal
    \/ Readmit

Spec == Init /\ [][Next]_vars

\* the patch applied to the original yields the working copy that was marshalled
PatchRoundTrip ==
    (pc = "done" /\ resp.kind = "patch") => ApplyPatch(req.object, resp.patch) = pod

\* -------------------------------------------------- calls returning an error
\* an internal error that lets the request through
InternalError_Allow(err) == Allowed(err)

\* webhook.go 248, 254, 358, 407: admission.Errored(http.StatusInternalServerError, err)
InternalError(err) == Errored(500, err)

\* webhook.go 245-249: proxy.NewEnvoyConfig returns an error
EnvoyConfigFails ==
    /\ pc = "inject"
    /\ idx <= Len(toInject)
    /\ toInject[idx] = injectAnnotationProxy
    /\ fault' = "NewEnvoyConfig"
    /\ resp' = InternalError(<<"error creating proxy config">>)
    /\ pc' = "done"
    /\ UNCHANGED <<req, pod, toInject, idx, pass, offstage>>

\* webhook.go 251-255: json.MarshalIndent of the proxy config returns an error
EnvoyMarshalFails ==
    /\ pc = "inject"
    /\ idx <= Len(toInject)
    /\ toInject[idx] = injectAnnotationProxy
    /\ fault' = "MarshalIndent"
    /\ resp' = InternalError(<<"error marshalling proxy config to JSON">>)
    /\ pc' = "done"
    /\ UNCHANGED <<req, pod, toInject, idx, pass, offstage>>

\* webhook.go 320-359: helper.NewSPIFFEHelperConfig returns an error, after the
\* two volumes of the helper were added to the working copy
HelperConfigFails ==
    /\ pc = "inject"
    /\ idx <= Len(toInject)
    /\ toInject[idx] = injectAnnotationHelper
    /\ pod' = EnsureVolume(
                  EnsureVolume(pod, emptyDirVolume(SPIFFEHelperConfigVolumeName)),
                  emptyDirVolume(spiffeEnableCertVolumeName))
    /\ fault' = "NewSPIFFEHelperConfig"
    /\ resp' = InternalError(<<"error creating spiffe-helper config">>)
    /\ pc' = "done"
    /\ UNCHANGED <<req, toInject, idx, pass, offstage>>

\* webhook.go 404-408: json.Marshal of the mutated pod returns an error
MarshalFails ==
    /\ pc = "inject"
    /\ idx > Len(toInject)
    /\ fault' = "Marshal"
    /\ resp' = InternalError(<<"marshal error">>)
    /\ pc' = "done"
    /\ UNCHANGED <<req, pod, toInject, idx, pass, offstage>>

\* Handle where each call that returns an error may fail
NextFaults ==
    \/ Next
    \/ EnvoyConfigFails
    \/ EnvoyMarshalFails
    \/ HelperConfigFails
    \/ MarshalFails

SpecFaults == Init /\ [][NextFaults]_vars

\* ------------------------------------------------ the renderer called alone
\* no invocation of Handle is under way
Parked ==
    /\ req = [rawOK |-> FALSE, object |-> ZeroPod]
    /\ pod = ZeroPod
    /\ pc = "idle"
    /\ toInject = <<>>
    /\ idx = 1
    /\ resp = NoResponse
    /\ pass = 1
    /\ fault = "none"

AgentAddressValues ==
    {<<>>, <<spiffeWLSocketPath>>, <<"unix:///run/spire/agent.sock">>,
     <<"/tmp/a", "&", "b.sock">>, <<"<", "agent", ">">>, <<"/agent", "+", "1.sock">>}

CertPathValues ==
    {<<>>, <<spiffeEnableCertDirectory>>, <<"/certs">>,
     <<"/var/run/", "\"", "certs", "\"">>, <<"/o", "'", "brien">>}

\* values of helper.SPIFFEHelperConfigParams
RendererParams ==
    [AgentAddress : AgentAddressValues, CertPath : CertPathValues,
     IncludeIntermediateBundle : BOOLEAN]

InitRenderer ==
    /\ Parked
    /\ inv = <<>>
    /\ copies = <<>>
    /\ rparams \in RendererParams
    /\ rendered = NotRendered
    /\ RulesIdle

\* part_006 49-61: one call of the renderer
Render ==
    /\ rendered = NotRendered
    /\ rendered' = NewSPIFFEHelperConfig(rparams)
    /\ UNCHANGED <<req, pod, pc, toInject, idx, resp, pass, fault, inv, copies, rparams,
                    again, packet, verdict>>

NextRenderer == Render

SpecRenderer == InitRenderer /\ [][NextRenderer]_vars

\* ------------------------------------------------- the renderers called twice
\* values of proxy.EnvoyConfigParams
EnvoyParams ==
    [NodeID : {<<>>, <<"node", "&", "a">>}, ClusterName : {<<>>, <<"c1">>},
     AdminAddress : {<<>>, <<"0.0.0.0">>}, AdminPort : {0, 9901, 15000},
     AgentXDSService : {<<>>, <<"cofide-agent.cofide.svc.cluster.local">>},
     AgentXDSPort : {0, 18001}]

\* a call of one of the two renderers
RenderCalls ==
    {[fn |-> "NewSPIFFEHelper", params |-> p] : p \in RendererParams}
    \cup {[fn |-> "NewEnvoy", params |-> p] : p \in EnvoyParams}

InitRenderCalls ==
    /\ Parked
    /\ inv = <<>>
    /\ copies = <<>>
    /\ rparams \in RenderCalls
    /\ rendered = NoResult
    /\ again = NoResult
    /\ packet = NoPacket
    /\ verdict = NoVerdict

\* what a call that returned has written
Written(result) ==
    IF result.out = <<>> THEN [Cfg |-> <<>>, InitScript |-> <<>>] ELSE result.out[1]

\* internal/helper/config.go 59-71: the first call
CallNewSPIFFEHelper ==
    /\ rparams.fn = "NewSPIFFEHelper"
    /\ rendered = NoResult
    /\ rendered' = NewSPIFFEHelper(rparams.params, <<>>)
    /\ UNCHANGED <<req, pod, pc, toInject, idx, resp, pass, fault, inv, copies, rparams,
                    again, packet, verdict>>

\* a second call with the same parameters
CallNewSPIFFEHelperAgain ==
    /\ rparams.fn = "NewSPIFFEHelper"
    /\ rendered # NoResult
    /\ again = NoResult
    /\ again' = NewSPIFFEHelper(rparams.params, Written(rendered).Cfg)
    /\ UNCHANGED <<req, pod, pc, toInject, idx, resp, pass, fault, inv, copies, rparams,
                    rendered, packet, verdict>>

\* internal/proxy/config.go 92-201: the first call, the run time ranging over
\* maps in some order
CallNewEnvoy ==
    /\ rparams.fn = "NewEnvoy"
    /\ rendered = NoResult
    /\ \E seed \in 0..MaxSeed : rendered' = NewEnvoy(rparams.params, seed, <<>>)
    /\ UNCHANGED <<req, pod, pc, toInject, idx, resp, pass, fault, inv, copies, rparams,
                    again, packet, verdict>>

\* a second call with the same parameters
CallNewEnvoyAgain ==
    /\ rparams.fn = "NewEnvoy"
    /\ rendered # NoResult
    /\ again = NoResult
    /\ \E seed \in 0..MaxSeed :
            again' = NewEnvoy(rparams.params, seed, Written(rendered).InitScript)
    /\ UNCHANGED <<req, pod, pc, toInject, idx, resp, pass, fault, inv, copies, rparams,
                    rendered, packet, verdict>>

NextRenderCalls ==
    \/ CallNewSPIFFEHelper
    \/ CallNewSPIFFEHelperAgain
    \/ CallNewEnvoy
    \/ CallNewEnvoyAgain

SpecRenderCalls == InitRenderCalls /\ [][NextRenderCalls]_vars

\* ---------------------------------------------- the rule chain and a packet
Loopback4 == [family |-> "ip", addr |-> <<127, 0, 0, 1>>]
Loopback4Other == [family |-> "ip", addr |-> <<127, 10, 0, 3>>]
Loopback6 == [family |-> "ip6", addr |-> <<0, 0, 0, 0, 0, 0, 0, 1>>]

Addresses ==
    {Loopback4, Loopback4Other, Loopback6,
     [family |-> "ip", addr |-> <<10, 0, 0, 5>>],
     [family |-> "ip", addr |-> <<128, 0, 0, 1>>],
     [family |-> "ip6", addr |-> <<8193, 3512, 0, 0, 0, 0, 0, 1>>]}

\* outgoing packets: the user that sent them, the protocol, the destination
Packets ==
    [uid : {0, 101, 1000, 1337}, l4proto : {"tcp", "udp"}, daddr : Addresses,
     dport : {1, 53, 80, 9901, 10000, 15053, 65535}]
    \cup [uid : {0, 101, 1000, 1337}, l4proto : {"icmp"}, daddr : Addresses, dport : {0}]

InitRules ==
    /\ Parked
    /\ inv = <<>>
    /\ copies = <<>>
    /\ rparams = [fn |-> "NewEnvoy",
                  params |-> [NodeID |-> <<>>, ClusterName |-> <<>>, AdminAddress |-> <<>>,
                              AdminPort |-> 0,
                              AgentXDSService |-> <<"cofide-agent.cofide.svc.cluster.local">>,
                              AgentXDSPort |-> 18001]]
    /\ rendered = NoResult
    /\ again = NoResult
    /\ packet \in Packets
    /\ verdict = NoVerdict

\* the kernel runs the packet through the chain the init script installed
EvaluatePacket ==
    /\ rendered # NoResult
    /\ rendered.err = "nil"
    /\ verdict = NoVerdict
    /\ verdict' = Evaluate(rendered.out[1].InitScript, packet, 1)
    /\ UNCHANGED <<req, pod, pc, toInject, idx, resp, pass, fault, inv, copies, rparams,
                    rendered, again, packet>>

NextRules ==
    \/ CallNewEnvoy
    \/ EvaluatePacket

SpecRules == InitRules /\ [][NextRules]_vars

\* --------------------------------------------------- concurrent invocations
\* the requests the concurrent invocations are given
ConcurrentObjects ==
    {[PlainPod EXCEPT !.annotations = Annotations(Absent, <<"helper">>, <<"true">>, Absent)],
     [PlainPod EXCEPT !.annotations = Annotations(<<"true">>, Absent, Absent, Absent)],
     [PlainPod EXCEPT !.annotations = Annotations(<<"true">>, <<"helper">>, Absent, <<"true">>)],
     [PlainPod EXCEPT !.annotations = Annotations(<<"true">>, <<"proxy", Comma, "helper">>, <<"true">>, Absent)],
     [PlainPod EXCEPT !.annotations = Annotations(<<"true">>, <<"bogus", Comma, "proxy">>, Absent, Absent)],
     [PodSpec(<<>>, <<dataMount, rwMount>>, <<>>, <<>>, <<>>)
        EXCEPT !.annotations = Annotations(<<"true">>, <<"proxy">>, Absent, Absent)]}

ConcurrentRequests ==
    {[rawOK |-> FALSE, object |-> ZeroPod]}
    \cup {[rawOK |-> TRUE, object |-> p] : p \in ConcurrentObjects}

\* the locals of an invocation at its entry
Entry(r) == [req |-> r, pc |-> "received", toInject |-> <<>>, idx |-> 1, resp |-> NoResponse]

\* a working copy held in one place for all the invocations
WorkingCopy_Shared(i) == 1

\* webhook.go 134: pod := &corev1.Pod{}, a working copy of the invocation's own
WorkingCopy(i) == i

InitConcurrent ==
    /\ Parked
    /\ inv \in [1..MaxInvocations -> {Entry(r) : r \in ConcurrentRequests}]
    /\ copies = [i \in 1..MaxInvocations |-> ZeroPod]
    /\ rparams = NoParams
    /\ rendered = NotRendered
    /\ RulesIdle

\* invocation i moves to the locals l and leaves w in its working copy
Moves(i, l, w) ==
    /\ inv' = [inv EXCEPT ![i] = l]
    /\ copies' = [copies EXCEPT ![WorkingCopy(i)] = w]
    /\ UNCHANGED <<req, pod, pc, toInject, idx, resp, pass, fault, rparams, rendered,
                    again, packet, verdict>>

\* webhook.go 134-138
ConcurrentDecode(i) ==
    /\ inv[i].pc = "received"
    /\ IF inv[i].req.rawOK
       THEN Moves(i, [inv[i] EXCEPT !.pc = "decoded"], inv[i].req.object)
       ELSE Moves(i, [inv[i] EXCEPT !.pc = "done", !.resp = Errored(400, <<"decode error">>)],
                  copies[WorkingCopy(i)])

\* webhook.go 142-148
ConcurrentGateCheck(i) ==
    /\ inv[i].pc = "decoded"
    /\ IF spiffeInjectionEnabled(copies[WorkingCopy(i)])
       THEN Moves(i, [inv[i] EXCEPT !.pc = "gated"], copies[WorkingCopy(i)])
       ELSE Moves(i, [inv[i] EXCEPT !.pc = "done",
                                    !.resp = Allowed(<<"Injection criteria not met">>)],
                  copies[WorkingCopy(i)])

\* webhook.go 150-195
ConcurrentInjectIdentity(i) ==
    /\ inv[i].pc = "gated"
    /\ Moves(i, [inv[i] EXCEPT !.pc = "identity"], InjectIdentitySocket(copies[WorkingCopy(i)]))

\* webhook.go 197-230
ConcurrentValidateModes(i) ==
    /\ inv[i].pc = "identity"
    /\ LET own == copies[WorkingCopy(i)]
       IN  IF injectAnnotation \notin DOMAIN own.annotations
           THEN Moves(i, [inv[i] EXCEPT !.pc = "inject"], own)
           ELSE LET split == Split(own.annotations[injectAnnotation])
                    invalid == invalidModes(split)
                IN  IF Len(invalid) > 0
                    THEN \E keys \in getKeys(allowedModes) :
                            Moves(i, [inv[i] EXCEPT !.pc = "done",
                                                    !.resp = Denied(DeniedMessage(invalid, keys))],
                                  own)
                    ELSE Moves(i, [inv[i] EXCEPT !.pc = "inject", !.toInject = split, !.idx = 1],
                               own)

\* webhook.go 233-401, one round of the loop
ConcurrentInjectNext(i) ==
    /\ inv[i].pc = "inject"
    /\ inv[i].idx <= Len(inv[i].toInject)
    /\ Moves(i, [inv[i] EXCEPT !.idx = @ + 1],
             InjectMode(copies[WorkingCopy(i)], inv[i].toInject[inv[i].idx]))

\* webhook.go 404-410
ConcurrentMarshal(i) ==
    /\ inv[i].pc = "inject"
    /\ inv[i].idx > Len(inv[i].toInject)
    /\ Moves(i, [inv[i] EXCEPT !.pc = "done",
                               !.resp = PatchResponseFromRaw(inv[i].req.object,
                                                             copies[WorkingCopy(i)])],
             copies[WorkingCopy(i)])

\* any invocation takes its next step
NextConcurrent ==
    \/ \E i \in 1..MaxInvocations : ConcurrentDecode(i)
    \/ \E i \in 1..MaxInvocations : ConcurrentGateCheck(i)
    \/ \E i \in 1..MaxInvocations : ConcurrentInjectIdentity(i)
    \/ \E i \in 1..MaxInvocations : ConcurrentValidateModes(i)
    \/ \E i \in 1..MaxInvocations : ConcurrentInjectNext(i)
    \/ \E i \in 1..MaxInvocations : ConcurrentMarshal(i)

SpecConcurrent == InitConcurrent /\ [][NextConcurrent]_vars

\* ------------------------------------------------- vocabulary of the claims
\* the request of the current admission, and whether Handle has answered it
Done == pc = "done"
Patched == pc = "done" /\ resp.kind = "patch"

\* the gate as the specification words it
GateOpen(object) ==
    /\ enabledAnnotation \in DOMAIN object.annotations
    /\ object.annotations[enabledAnnotation] = <<"true">>

HasModeList(object) == injectAnnotation \in DOMAIN object.annotations

\* the tokens of the mode list: trimmed, the empty ones dropped
ModeTokens(object) ==
    IF ~HasModeList(object) THEN <<>>
    ELSE LET raw == Split(object.annotations[injectAnnotation])
         IN  SelectSeq([i \in DOMAIN raw |-> TrimSpace(raw[i])], LAMBDA t : t # <<>>)

Capabilities == {<<"helper">>, <<"proxy">>}

InvalidTokens(object) == SelectSeq(ModeTokens(object), LAMBDA t : t \notin Capabilities)

ValidModeList(object) == InvalidTokens(object) = <<>>

NoDupNames(list) ==
    \A i, j \in DOMAIN list : i # j => list[i].name # list[j].name

Names(list) == {list[i].name : i \in DOMAIN list}

\* the same object with another value of the inject annotation
WithModeList(object, value) ==
    [object EXCEPT !.annotations = (injectAnnotation :> value) @@ object.annotations]

\* the lists of a pod, its annotations left out
Resources(p) ==
    [volumes |-> p.volumes, containers |-> p.containers, initContainers |-> p.initContainers]

\* the pod Handle marshals for an accepted request
MutatedPod(object) ==
    LET identity == InjectIdentitySocket(object)
    IN  IF ~HasModeList(object) THEN identity
        ELSE InjectFrom(identity, Split(object.annotations[injectAnnotation]), 1)

\* the responses Handle can give to a decodable object when it runs alone
Responses(object) ==
    IF ~spiffeInjectionEnabled(object)
    THEN {Allowed(<<"Injection criteria not met">>)}
    ELSE LET invalid == IF HasModeList(object)
                        THEN invalidModes(Split(object.annotations[injectAnnotation]))
                        ELSE <<>>
         IN  IF Len(invalid) > 0
             THEN {Denied(DeniedMessage(invalid, keys)) : keys \in getKeys(allowedModes)}
             ELSE {PatchResponseFromRaw(object, MutatedPod(object))}

\* ------------------------------------------------------------------ claims
\* C1: a request whose pod lacks the enable annotation, or carries it with a
\* value other than exactly "true", is answered "allowed" with no patch, and its
\* pod is never mutated, whatever the other annotations say.
C1_GateCorrectness ==
    (req.rawOK /\ ~GateOpen(req.object)) =>
        /\ pc \in {"received", "decoded", "done"}
        /\ pod \in {ZeroPod, req.object}
        /\ Done => /\ resp.kind = "allowed"
                   /\ resp.allowed
                   /\ resp.patch = NoPatch
                   /\ pod = req.object

C1_Witness ==
    /\ Done
    /\ enabledAnnotation \in DOMAIN req.object.annotations
    /\ req.object.annotations[enabledAnnotation] = <<"True">>
    /\ HasModeList(req.object)
    /\ ~ValidModeList(req.object)
    /\ debugAnnotation \in DOMAIN req.object.annotations
    /\ resp.kind = "allowed"

\* C2: with a gate-enabled pod and a valid mode list, the second admission of
\* the pod mutated by the first one returns an empty patch.
C2_Idempotence ==
    (Patched /\ pass = 2) => resp.patch = <<>>

\* C3: with the gate enabled and an invalid token in the mode list, the answer
\* is a denial without patch, the injection loop is never entered, and the
\* working copy never gains a helper or proxy volume, init container or sidecar.
CapabilityVolumes == {SPIFFEHelperConfigVolumeName, spiffeEnableCertVolumeName, EnvoyConfigVolumeName}
CapabilityInitContainers == {SPIFFEHelperInitContainerName, EnvoyConfigInitContainerName}
CapabilitySidecars == {SPIFFEHelperSidecarContainerName, EnvoySidecarContainerName}

C3_ValidationFailClosed ==
    (req.rawOK /\ GateOpen(req.object) /\ ~ValidModeList(req.object)) =>
        /\ pc # "inject"
        /\ resp.kind \in {"none", "denied"}
        /\ Done => (resp.kind = "denied" /\ ~resp.allowed /\ resp.patch = NoPatch)
        /\ pc \notin {"received"} =>
            /\ Names(pod.volumes) \cap CapabilityVolumes
                 = Names(req.object.volumes) \cap CapabilityVolumes
            /\ pod.initContainers = req.object.initContainers
            /\ Names(pod.containers) \cap CapabilitySidecars
                 = Names(req.object.containers) \cap CapabilitySidecars

C3_Witness ==
    /\ Done
    /\ resp.kind = "denied"
    /\ HasModeList(req.object)
    /\ req.object.annotations[injectAnnotation] = <<"helper", Comma, "bogus">>

\* C4: a pod whose volumes, containers and init containers have unique names
\* keeps unique names in the three lists through Handle, on every admission.
C4_NoDuplicateResources ==
    (NoDupNames(req.object.volumes) /\ NoDupNames(req.object.containers)
        /\ NoDupNames(req.object.initContainers)) =>
        /\ NoDupNames(pod.volumes)
        /\ NoDupNames(pod.containers)
        /\ NoDupNames(pod.initContainers)

C4_Witness ==
    /\ Patched
    /\ pass >= 2
    /\ Names(pod.volumes) = CapabilityVolumes \cup {spiffeWLVolume}
    /\ CapabilityInitContainers \subseteq Names(pod.initContainers)
    /\ CapabilitySidecars \subseteq Names(pod.containers)

\* C5: when no container of the input has two volume mounts of the same name,
\* no container of the mutated pod has.
NoDupMounts(containers) ==
    \A i \in DOMAIN containers : NoDupNames(containers[i].mounts)

C5_NoDuplicateMounts ==
    (Patched /\ NoDupMounts(req.object.containers)) => NoDupMounts(pod.containers)

\* C6: in every patch response each container of the mutated pod, the sidecars
\* appended in the same pass included, has the read-only identity mount and the
\* socket environment variable.
HasIdentitySocket(container) ==
    /\ \E i \in DOMAIN container.mounts : container.mounts[i] = spiffeVolumeMount
    /\ \E i \in DOMAIN container.env : container.env[i].name = spiffeWLSocketEnvName

C6_IdentitySocketCoverage ==
    Patched => \A i \in DOMAIN pod.containers : HasIdentitySocket(pod.containers[i])

\* C7: whenever a pass injects the helper init container, it is the first init
\* container of the mutated pod.
HelperInitInjected ==
    /\ Patched
    /\ SPIFFEHelperInitContainerName \notin Names(req.object.initContainers)
    /\ SPIFFEHelperInitContainerName \in Names(pod.initContainers)

C7_HelperInitFirst ==
    HelperInitInjected => pod.initContainers[1].name = SPIFFEHelperInitContainerName

\* C8: a valid mode list whose tokens carry white space is accepted and yields
\* the pod of the same list written without the white space.
WithoutSpace(value) ==
    LET raw == Split(value)
    IN  Join([i \in DOMAIN raw |-> TrimSpace(raw[i])], <<Comma>>)

C8_TokenTrimming ==
    (Done /\ req.rawOK /\ GateOpen(req.object) /\ HasModeList(req.object)
        /\ ValidModeList(req.object)) =>
        /\ resp.kind = "patch"
        /\ Resources(pod) = Resources(MutatedPod(WithModeList(req.object,
                     WithoutSpace(req.object.annotations[injectAnnotation]))))

\* C9: a valid mode list yields the pod of the same list with every repetition
\* of a token removed, its first occurrence kept.
RECURSIVE FirstOccurrences(_, _)
FirstOccurrences(raw, seen) ==
    IF raw = <<>> THEN <<>>
    ELSE IF TrimSpace(Head(raw)) \in seen THEN FirstOccurrences(Tail(raw), seen)
    ELSE <<Head(raw)>> \o FirstOccurrences(Tail(raw), seen \cup {TrimSpace(Head(raw))})

Deduplicated(value) == Join(FirstOccurrences(Split(value), {}), <<Comma>>)

C9_Deduplication ==
    (Done /\ req.rawOK /\ GateOpen(req.object) /\ HasModeList(req.object)
        /\ ValidModeList(req.object)) =>
        /\ resp.kind = "patch"
        /\ Resources(pod) = Resources(MutatedPod(WithModeList(req.object,
                     Deduplicated(req.object.annotations[injectAnnotation]))))

\* C10: the reason of a denial enumerates the invalid tokens of the list,
\* trimmed and in the order written, none of the valid ones, and then lists
\* the whole allowed set.
AllowedPartStart(reason) == IndexFrom(reason, ". Allowed modes are: ", 1)

C10_DenialMessage ==
    (Done /\ resp.kind = "denied") =>
        LET k == AllowedPartStart(resp.reason)
            listed == SubSeq(resp.reason, k + 2, Len(resp.reason) - 1)
        IN  /\ k > 1
            /\ resp.reason[1] = "invalid mode(s) found in injection list: "
            /\ SubSeq(resp.reason, 2, k - 1)
                 = Join(InvalidTokens(req.object), <<Comma, Space>>)
            /\ resp.reason[k + 1] = "["
            /\ resp.reason[Len(resp.reason)] = "]"
            /\ {<<listed[i]>> : i \in {j \in DOMAIN listed : listed[j] # Space}} = Capabilities
            /\ Len(listed) = 3

C10_Witness ==
    /\ Done
    /\ resp.kind = "denied"
    /\ req.object.annotations[injectAnnotation] = <<Space, "bogus", Comma, "csi">>

\* C11: when rendering the helper config, building or marshalling the proxy
\* config, or marshalling the mutated pod fails after the gate check, Handle
\* answers with an internal error of code 500 that carries no patch and is not
\* an allowed response, also when the working copy was already changed.
C11_InternalErrorFailClosed ==
    (fault # "none") =>
        /\ pc = "done"
        /\ resp.kind = "errored"
        /\ resp.code = 500
        /\ ~resp.allowed
        /\ resp.patch = NoPatch

\* the helper renderer failed after the proxy injector and the helper volumes
\* had changed the working copy
C11_Witness ==
    /\ fault = "NewSPIFFEHelperConfig"
    /\ resp.code = 500
    /\ EnvoySidecarContainerName \in Names(pod.containers)
    /\ EnvoySidecarContainerName \notin Names(req.object.containers)
    /\ spiffeEnableCertVolumeName \in Names(pod.volumes)
    /\ spiffeEnableCertVolumeName \notin Names(req.object.volumes)

\* C12: whenever Handle returns a patch, every container of the input has in
\* the mutated pod the variable SPIFFE_ENDPOINT_SOCKET with the value
\* unix:///spiffe-workload-api/spire-agent.sock, whatever variables it had.
C12_SocketEnvVarValue ==
    Patched =>
        \A i \in DOMAIN req.object.containers :
            \E e \in DOMAIN pod.containers[i].env :
                pod.containers[i].env[e] = spiffeSocketEnvVar

\* the positions of a container's mounts with the identity name and path
MountsAtIdentityPath(c) ==
    {k \in DOMAIN c.mounts :
        c.mounts[k].name = spiffeWLVolume /\ c.mounts[k].path = spiffeWLMountPath}

\* C13: for a container that has a mount spiffe-workload-api at
\* /spiffe-workload-api with ReadOnly false, ensureCSIVolumeMount sets ReadOnly
\* on that element, keeps the length, the order and every other mount, and
\* reports a change; when the exact mount is there it changes nothing and
\* reports no change.
C13_ReadOnlyCorrectedInPlace ==
    (pc \in {"identity", "inject", "done"} /\ req.rawOK /\ GateOpen(req.object)) =>
        \A i \in DOMAIN req.object.containers :
            LET c == req.object.containers[i]
                r == ensureCSIVolumeMount(c, spiffeVolumeMount)
            IN  \A k \in MountsAtIdentityPath(c) :
                    IF c.mounts[k].ro
                    THEN /\ ~r.madeChange
                         /\ r.container = c
                         /\ pod.containers[i].mounts = c.mounts
                    ELSE /\ r.madeChange
                         /\ r.container = [c EXCEPT !.mounts[k].ro = TRUE]
                         /\ Len(r.container.mounts) = Len(c.mounts)
                         /\ pod.containers[i].mounts = [c.mounts EXCEPT ![k].ro = TRUE]

\* the second mount of a container was corrected where it stood
C13_Witness ==
    /\ pc = "identity"
    /\ req.object.containers[1].mounts = <<dataMount, rwMount>>
    /\ pod.containers[1].mounts = <<dataMount, spiffeVolumeMount>>
    /\ ensureCSIVolumeMount(req.object.containers[1], spiffeVolumeMount).madeChange

\* C14: when Handle runs in proxy mode on a pod without a container named
\* envoy-sidecar, the envoy-sidecar it appends has, in the mutated pod of that
\* pass, a mount of the identity volume and exposes the proxy port 10000.
C14_ProxySidecarIdentityMount ==
    (/\ Patched
     /\ EnvoySidecarContainerName \notin Names(req.object.containers)
     /\ EnvoySidecarContainerName \in Names(pod.containers)) =>
        \A i \in DOMAIN pod.containers :
            pod.containers[i].name = EnvoySidecarContainerName =>
                /\ spiffeWLVolume \in Names(pod.containers[i].mounts)
                /\ EnvoyConfigVolumeName \in Names(pod.containers[i].mounts)
                /\ \E q \in DOMAIN pod.containers[i].ports :
                        pod.containers[i].ports[q] = 10000

\* the input of scenario A: the gate enabled, no mode list, no debug
\* annotation, no identity volume, no container with the identity mount or the
\* socket variable
ScenarioA(object) ==
    /\ GateOpen(object)
    /\ ~HasModeList(object)
    /\ debugAnnotation \notin DOMAIN object.annotations
    /\ spiffeWLVolume \notin Names(object.volumes)
    /\ \A i \in DOMAIN object.containers :
            /\ MountsAtIdentityPath(object.containers[i]) = {}
            /\ spiffeWLSocketEnvName \notin Names(object.containers[i].env)

\* C15: for an input of scenario A the mutated pod has exactly one more volume,
\* the identity volume, every input container has exactly one more mount and
\* one more variable, and Containers and InitContainers keep their lengths.
C15_IdentityOnlyMutation ==
    (Patched /\ ScenarioA(req.object)) =>
        /\ pod.volumes = Append(req.object.volumes, csiVolume)
        /\ Len(pod.containers) = Len(req.object.containers)
        /\ Len(pod.initContainers) = Len(req.object.initContainers)
        /\ \A i \in DOMAIN req.object.containers :
                /\ Len(pod.containers[i].mounts) = Len(req.object.containers[i].mounts) + 1
                /\ Len(pod.containers[i].env) = Len(req.object.containers[i].env) + 1

\* a scenario A pod of two containers with mounts and variables of their own
C15_Witness ==
    /\ Patched
    /\ ScenarioA(req.object)
    /\ Len(req.object.containers) = 2
    /\ Len(req.object.containers[2].mounts) = 1
    /\ Len(pod.containers[2].mounts) = 2
    /\ Len(pod.containers[2].env) = 1

\* the mode list written without its empty and white-space-only tokens
WithoutEmptyTokens(value) ==
    Join(SelectSeq(Split(value), LAMBDA t : TrimSpace(t) # <<>>), <<Comma>>)

\* C16: empty and white-space-only tokens of the mode list cause neither a
\* denial nor an injection: the response is the one of the same list with those
\* tokens removed, and a list of such tokens only gets the identity-only patch.
C16_EmptyTokensDropped ==
    (Done /\ req.rawOK /\ GateOpen(req.object) /\ HasModeList(req.object)) =>
        LET value == req.object.annotations[injectAnnotation]
        IN  /\ resp \in Responses(WithModeList(req.object, WithoutEmptyTokens(value)))
            /\ ModeTokens(req.object) = <<>> =>
                    resp = PatchResponseFromRaw(req.object, InjectIdentitySocket(req.object))

\* a list with a trailing comma was accepted and the helper injected
C16_Witness ==
    /\ Patched
    /\ HasModeList(req.object)
    /\ req.object.annotations[injectAnnotation] = <<"helper", Comma>>
    /\ SPIFFEHelperSidecarContainerName \in Names(pod.containers)

\* the modes the README lists
DocumentedModes == {<<"csi">>, <<"helper">>, <<"proxy">>}

\* C18: a gate-enabled pod whose mode list names csi, alone or with helper and
\* proxy, is admitted with a patch, and each of its containers gets the
\* identity mount and the socket variable.
C18_CsiModeAccepted ==
    (/\ Done
     /\ req.rawOK
     /\ GateOpen(req.object)
     /\ \E i \in DOMAIN ModeTokens(req.object) : ModeTokens(req.object)[i] = <<"csi">>
     /\ \A i \in DOMAIN ModeTokens(req.object) : ModeTokens(req.object)[i] \in DocumentedModes) =>
        /\ resp.kind = "patch"
        /\ \A i \in DOMAIN req.object.containers : HasIdentitySocket(pod.containers[i])

\* the variables of the injected helper init container that carry its config
HelperConfigPayloads ==
    UNION {{pod.initContainers[i].env[e].value :
                e \in {x \in DOMAIN pod.initContainers[i].env :
                          pod.initContainers[i].env[x].name = SPIFFEHelperConfigContentEnvVar}} :
           i \in {y \in DOMAIN pod.initContainers :
                     pod.initContainers[y].name = SPIFFEHelperInitContainerName}}

HasIntermediateLine(config) ==
    \E k \in DOMAIN config : config[k] = "\nadd_intermediates_to_bundle = true\n"

\* C19: when Handle injects the helper init container, the payload of its
\* SPIFFE_HELPER_CONFIG variable has the line add_intermediates_to_bundle = true
\* exactly when the include-intermediate-bundle annotation is present with the
\* value "true".
C19_IntermediateBundleBlock ==
    HelperInitInjected =>
        /\ HelperConfigPayloads # {}
        /\ \A config \in HelperConfigPayloads :
                HasIntermediateLine(config) <=>
                    (/\ spiffeHelperIncIntermediateAnnotation \in DOMAIN req.object.annotations
                     /\ req.object.annotations[spiffeHelperIncIntermediateAnnotation] = <<"true">>)

\* the helper was injected with the annotation "true" and the line is there
C19_Witness ==
    /\ HelperInitInjected
    /\ spiffeHelperIncIntermediateAnnotation \in DOMAIN req.object.annotations
    /\ req.object.annotations[spiffeHelperIncIntermediateAnnotation] = <<"true">>
    /\ \E config \in HelperConfigPayloads : HasIntermediateLine(config)

\* the chunks of a rendered config between the opening of a key and the
\* closing quote of its line
RECURSIVE UpToClosingQuote(_, _)
UpToClosingQuote(config, i) ==
    IF i > Len(config) \/ config[i] = "\"\n" THEN <<>>
    ELSE <<config[i]>> \o UpToClosingQuote(config, i + 1)

ValueOfKey(config, opening) ==
    LET at == CHOOSE i \in DOMAIN config : config[i] = opening
    IN  UpToClosingQuote(config, at + 1)

\* C20: the config rendered from an empty AgentAddress or an empty CertPath has
\* fixed fall-back values for agent_address and cert_dir, never empty strings.
C20_RendererDefaults ==
    (rendered # NotRendered) =>
        /\ ValueOfKey(rendered, "\nagent_address = \"") # <<>>
        /\ ValueOfKey(rendered, "cert_dir = \"") # <<>>

\* the responses a request gets from an invocation that runs alone
AloneResponses(r) ==
    IF r.rawOK THEN Responses(r.object) ELSE {Errored(400, <<"decode error">>)}

\* the working copy of an invocation that runs alone, up to the validation
AloneCopy(l) ==
    IF l.pc = "received" THEN ZeroPod
    ELSE IF l.pc \in {"decoded", "gated"} THEN l.req.object
    ELSE InjectIdentitySocket(l.req.object)

\* C17: with several invocations of Handle running at once on their requests,
\* under every interleaving of their steps, the response of each is one it
\* gives when it runs alone, and its working copy is written by no other
\* invocation.
C17_RequestIndependence ==
    \A i \in DOMAIN inv :
        /\ inv[i].pc \in {"received", "decoded", "gated", "identity"} =>
                copies[i] = AloneCopy(inv[i])
        /\ inv[i].pc = "done" => inv[i].resp \in AloneResponses(inv[i].req)

\* two invocations on different requests, one denied while the other, which
\* started first, was patched
C17_Witness ==
    /\ DOMAIN inv = 1..MaxInvocations
    /\ inv[1].pc = "done"
    /\ inv[2].pc = "done"
    /\ inv[1].resp.kind = "patch"
    /\ inv[2].resp.kind = "denied"
    /\ Len(copies[1].initContainers) = 2

\* C21: two calls of the renewal-agent config renderer, or of NewEnvoy, with
\* the same parameters return the same error and the same output: the config
\* text, the init script, and the bootstrap JSON with its keys in the same
\* order, whatever the second call finds written by the first and in whatever
\* order the run time ranges over the maps of the bootstrap in either call.
C21_RendererDeterminism ==
    (rendered # NoResult /\ again # NoResult) => rendered = again

\* NewEnvoy was called twice and returned a bootstrap with its node map, which
\* the run time can range over in more than one order
C21_Witness ==
    /\ rparams.fn = "NewEnvoy"
    /\ rendered # NoResult
    /\ again # NoResult
    /\ rendered.err = "nil"
    /\ Len(again.out[1].InitScript) > 0
    /\ \E i \in DOMAIN again.out[1].Cfg : again.out[1].Cfg[i] = "cluster"
    /\ \E i \in DOMAIN again.out[1].Cfg : again.out[1].Cfg[i] = "\\u0026"
    /\ \E s, t \in 0..MaxSeed : mapRange({"id", "cluster"}, s) # mapRange({"id", "cluster"}, t)

\* C22: for every value of SPIFFEHelperConfigParams, the all-empty one and
\* both values of IncludeIntermediateBundle included, NewSPIFFEHelper returns a
\* nil error and a helper that holds a rendered config.
C22_RendererNeverFails ==
    (rparams.fn = "NewSPIFFEHelper" /\ rendered # NoResult) =>
        /\ rendered.err = "nil"
        /\ Len(rendered.out) = 1
        /\ Len(rendered.out[1].Cfg) > 0

\* the renderer was called with the all-empty parameters
C22_Witness ==
    /\ rparams.fn = "NewSPIFFEHelper"
    /\ rparams.params = NoParams
    /\ rendered # NoResult
    /\ rendered.err = "nil"

\* a destination on the loopback interface
IsLoopback(daddr) ==
    \/ daddr.family = "ip" /\ daddr.addr[1] = 127
    \/ daddr.family = "ip6" /\ daddr.addr = <<0, 0, 0, 0, 0, 0, 0, 1>>

\* C25: in the chain rendered by NewEnvoy a packet sent by the user the proxy
\* sidecar runs as is never redirected, nor is a TCP packet to the proxy port
\* or to the admin port 9901; every other UDP or TCP packet to port 53 is
\* redirected to the DNS proxy port, and every other TCP packet to a loopback
\* address is redirected to the proxy port.
C25_RedirectionAvoidsSelfLoops ==
    (verdict # NoVerdict) =>
        LET own == packet.uid = GetSidecarContainer.runAsUser
            proxyPort == GetSidecarContainer.ports[1]
            tcp == packet.l4proto = "tcp"
            dns == packet.l4proto \in {"tcp", "udp"} /\ packet.dport = 53
            ownPort == tcp /\ packet.dport \in {proxyPort, 9901}
        IN  /\ own => verdict.action # "redirect"
            /\ ownPort => verdict.action # "redirect"
            /\ (~own /\ dns) => verdict = [action |-> "redirect", to |-> 15053]
            /\ (~own /\ ~dns /\ ~ownPort /\ tcp /\ IsLoopback(packet.daddr)) =>
                    verdict = [action |-> "redirect", to |-> proxyPort]

\* a DNS query of the proxy itself went out as it was
C25_Witness ==
    /\ verdict = [action |-> "accept", to |-> 0]
    /\ packet.uid = 1337
    /\ packet.l4proto = "udp"
    /\ packet.dport = 53

\* the terminal outcomes of an invocation
Outcome(r) ==
    IF r.kind = "errored" /\ r.code = 400 /\ ~r.allowed /\ r.patch = NoPatch THEN "bad request"
    ELSE IF r.kind = "errored" /\ r.code = 500 /\ ~r.allowed /\ r.patch = NoPatch
    THEN "internal error"
    ELSE IF r.kind = "allowed" /\ r.allowed /\ r.patch = NoPatch THEN "allowed without patch"
    ELSE IF r.kind = "denied" /\ ~r.allowed /\ r.patch = NoPatch THEN "denied"
    ELSE IF r.kind = "patch" /\ r.allowed THEN "allowed with patch"
    ELSE "none"

\* the steps left to an invocation: its position, then the tokens not yet injected
StepsLeft ==
    CASE pc = "received" -> 5 + MaxTokens
      [] pc = "decoded" -> 4 + MaxTokens
      [] pc = "gated" -> 3 + MaxTokens
      [] pc = "identity" -> 2 + MaxTokens
      [] pc = "inject" -> 1 + (Len(toInject) + 1 - idx)
      [] OTHER -> 0

\* what holds of an invocation at every moment
OrchestratorInvariant ==
    /\ pc # "done" => (resp = NoResponse /\ ENABLED NextFaults)
    /\ pc = "done" =>
            Outcome(resp) \in {"bad request", "internal error", "allowed without patch",
                               "denied", "allowed with patch"}
    /\ ~req.rawOK => (pc \in {"received", "done"} /\ pod = ZeroPod)
    /\ pc \in {"decoded", "gated"} => pod = req.object
    /\ pc = "identity" => pod = InjectIdentitySocket(req.object)
    /\ pc = "inject" => InvalidTokens(req.object) = <<>>
    /\ (pc = "done" /\ Outcome(resp) = "denied") => pod = InjectIdentitySocket(req.object)

\* the order of the steps, and the step each outcome comes from
OrchestratorStep ==
    /\ StepsLeft' < StepsLeft \/ (pc = "done" /\ pc' = "received")
    /\ \/ pc = "received" /\ pc' = "decoded"
       \/ pc = "received" /\ pc' = "done" /\ Outcome(resp') = "bad request"
       \/ pc = "decoded" /\ pc' = "gated"
       \/ pc = "decoded" /\ pc' = "done" /\ Outcome(resp') = "allowed without patch"
       \/ pc = "gated" /\ pc' = "identity"
       \/ pc = "identity" /\ pc' = "inject"
       \/ pc = "identity" /\ pc' = "done" /\ Outcome(resp') = "denied"
       \/ pc = "inject" /\ pc' = "inject" /\ idx <= Len(toInject) /\ idx' = idx + 1
       \/ pc = "inject" /\ pc' = "done" /\ Outcome(resp') = "internal error"
       \/ pc = "inject" /\ pc' = "done" /\ idx > Len(toInject)
             /\ Outcome(resp') = "allowed with patch"
       \/ pc = "done" /\ pc' = "received"

\* C23: every invocation of Handle ends, in a bounded number of steps, in
\* exactly one of the outcomes bad request, allowed without patch, denied,
\* internal error and allowed with patch, through the order decode, gate,
\* identity-socket injection, validation, capability injection, marshal; a
\* decode failure ends it before the gate, and no injector runs before every
\* token is validated.
C23_OrchestratorStateMachine ==
    []OrchestratorInvariant /\ [][OrchestratorStep]_vars

\* the marshalling failed after the two tokens of the list were injected
C23_Witness ==
    /\ pc = "done"
    /\ fault = "Marshal"
    /\ Outcome(resp) = "internal error"
    /\ Len(toInject) = 2
    /\ EnvoySidecarContainerName \in Names(pod.containers)
    /\ SPIFFEHelperSidecarContainerName \in Names(pod.containers)

\* whether element b of the output is element a of the input: a volume, a
\* variable or an init container is unchanged; a mount is unchanged but for the
\* ReadOnly flag of an identity mount; a container keeps its name, image and
\* ports, and its variables and mounts in their order
\* Embedded: whether the elements of a from i on appear, in their order, among
\* those of b from j on
RECURSIVE Corresponds(_, _, _), Embedded(_, _, _, _, _)
Corresponds(what, a, b) ==
    CASE what = "mount" ->
            /\ a.name = b.name
            /\ a.path = b.path
            /\ a.ro = b.ro \/ (a.name = spiffeWLVolume /\ a.path = spiffeWLMountPath)
      [] what = "container" ->
            /\ a.name = b.name
            /\ a.image = b.image
            /\ a.ports = b.ports
            /\ Embedded("same", a.env, b.env, 1, 1)
            /\ Embedded("mount", a.mounts, b.mounts, 1, 1)
      [] OTHER -> a = b

Embedded(what, a, b, i, j) ==
    IF i > Len(a) THEN TRUE
    ELSE IF j > Len(b) THEN FALSE
    ELSE IF Corresponds(what, a[i], b[j]) THEN Embedded(what, a, b, i + 1, j + 1)
    ELSE Embedded(what, a, b, i, j + 1)

\* C24: in every patch response the mutated pod holds every volume, container,
\* init container, variable and mount of the input, unchanged but for the
\* ReadOnly flag of an existing identity mount and in the input's relative
\* order, and the annotations are those of the input.
C24_OnlyAddsOrReplaces ==
    Patched =>
        /\ pod.annotations = req.object.annotations
        /\ Embedded("same", req.object.volumes, pod.volumes, 1, 1)
        /\ Embedded("same", req.object.initContainers, pod.initContainers, 1, 1)
        /\ Embedded("container", req.object.containers, pod.containers, 1, 1)

\* init containers were injected into a pod that came with two volumes, a
\* sidecar and two init containers
C24_Witness ==
    /\ Patched
    /\ pass = 1
    /\ CapabilityInitContainers \subseteq Names(pod.initContainers)
    /\ Len(pod.initContainers) > Len(req.object.initContainers)
    /\ Len(req.object.initContainers) = 2
    /\ Len(req.object.volumes) = 2
    /\ Len(req.object.containers) = 2

\* the lengths of the three lists of a pod
Counts(p) == <<Len(p.volumes), Len(p.containers), Len(p.initContainers)>>

\* C26: when an accepted pod is admitted again and again with its annotations
\* unchanged, the second admission already leaves the numbers of volumes,
\* containers and init containers as the first one made them, and the third
\* and every later admission returns a mutated pod equal to its input.
C26_Convergence ==
    /\ (Patched /\ pass >= 2) => Counts(pod) = Counts(req.object)
    /\ (Patched /\ pass >= 3) => (pod = req.object /\ resp.patch = <<>>)

\* the third admission of a pod that was given both capabilities and the
\* debug container
C26_Witness ==
    /\ Patched
    /\ pass = 3
    /\ CapabilitySidecars \cup {debugUIContainerName} \subseteq Names(pod.containers)
    /\ CapabilityInitContainers \subseteq Names(pod.initContainers)
    /\ \A i \in DOMAIN pod.containers : HasIdentitySocket(pod.containers[i])

\* the elements of a list whose name the input list does not hold
InjectedInto(list, input) == SelectSeq(list, LAMBDA c : c.name \notin Names(input))

\* whether every mount of every container of the list names a volume of p
MountsResolve(list, p) ==
    \A i \in DOMAIN list : \A j \in DOMAIN list[i].mounts :
        list[i].mounts[j].name \in Names(p.volumes)

\* C27: in every patch response, every mount of every container or init
\* container injected in that pass, and the identity mount of every container
\* the pod came with, names a volume of the mutated pod.
C27_InjectedMountsResolve ==
    Patched =>
        /\ MountsResolve(InjectedInto(pod.containers, req.object.containers), pod)
        /\ MountsResolve(InjectedInto(pod.initContainers, req.object.initContainers), pod)
        /\ \A i \in DOMAIN req.object.containers :
                /\ MountsAtIdentityPath(pod.containers[i]) # {}
                /\ \A k \in MountsAtIdentityPath(pod.containers[i]) :
                        pod.containers[i].mounts[k].name \in Names(pod.volumes)

\* a pod that came without volumes was given both capabilities and the debug
\* container
C27_Witness ==
    /\ Patched
    /\ pass = 1
    /\ req.object.volumes = <<>>
    /\ Len(InjectedInto(pod.containers, req.object.containers)) = 3
    /\ Len(InjectedInto(pod.initContainers, req.object.initContainers)) = 2
    /\ Len(req.object.initContainers) = 1

\* the elements of a list that bear the name
Named(list, name) == SelectSeq(list, LAMBDA e : e.name = name)

\* a container without its identity mounts and its socket variables
WithoutIdentitySocket(c) ==
    [c EXCEPT
        !.mounts = SelectSeq(@, LAMBDA m :
                        ~(m.name = spiffeWLVolume /\ m.path = spiffeWLMountPath)),
        !.env = SelectSeq(@, LAMBDA e : e.name # spiffeWLSocketEnvName)]

\* C28: a volume or an init container of the input that bears a name Handle
\* would inject is in the mutated pod of every patch response unchanged, and
\* alone under its name, whatever its content; a container of the input named
\* spiffe-helper, envoy-sidecar or spiffe-enable-ui is changed by nothing but
\* its identity mount and its socket variable.
C28_PresenceByNameOnly ==
    Patched =>
        /\ \A n \in CapabilityVolumes \cup {spiffeWLVolume} :
                Named(req.object.volumes, n) # <<>> =>
                    Named(pod.volumes, n) = Named(req.object.volumes, n)
        /\ \A n \in CapabilityInitContainers :
                Named(req.object.initContainers, n) # <<>> =>
                    Named(pod.initContainers, n) = Named(req.object.initContainers, n)
        /\ \A n \in CapabilitySidecars \cup {debugUIContainerName} :
                Named(req.object.containers, n) # <<>> =>
                    /\ Len(Named(pod.containers, n)) = 1
                    /\ WithoutIdentitySocket(Named(pod.containers, n)[1])
                           = WithoutIdentitySocket(Named(req.object.containers, n)[1])

\* both capabilities were asked for a pod that came with a config-map volume
\* named envoy-config, a helper init container rendered from other parameters
\* and a container named spiffe-helper
C28_Witness ==
    /\ Patched
    /\ pass = 1
    /\ Named(req.object.volumes, EnvoyConfigVolumeName)
           = <<[name |-> EnvoyConfigVolumeName, kind |-> "configMap"]>>
    /\ Named(req.object.initContainers, SPIFFEHelperInitContainerName)
           = <<helperInitContainer(staleHelperConfig)>>
    /\ Named(req.object.containers, SPIFFEHelperSidecarContainerName) # <<>>
    /\ EnvoySidecarContainerName \in Names(pod.containers)
    /\ EnvoyConfigInitContainerName \in Names(pod.initContainers)
    /\ ~incIntermediateBundle(req.object)

\* the mode whose injector adds the init container of that name
ModeOfInitContainer(name) ==
    IF name = SPIFFEHelperInitContainerName THEN injectAnnotationHelper
    ELSE injectAnnotationProxy

\* the position of the first token of the mode list that selects the mode
DeclaredAt(object, mode) ==
    LET tokens == Split(object.annotations[injectAnnotation])
    IN  CHOOSE k \in DOMAIN tokens :
            /\ tokens[k] = mode
            /\ \A l \in 1..(k - 1) : tokens[l] # mode

\* C29: in every patch response the init containers injected in that pass
\* come first in the mutated pod's list, the one whose mode token was declared
\* later before the one whose token was declared earlier, and the init
\* containers the pod came with follow them in their original order.
C29_InitContainersShape ==
    Patched =>
        LET injected == InjectedInto(pod.initContainers, req.object.initContainers)
        IN  /\ pod.initContainers = injected \o req.object.initContainers
            /\ \A i, j \in DOMAIN injected :
                    i < j => DeclaredAt(req.object, ModeOfInitContainer(injected[i].name))
                                > DeclaredAt(req.object, ModeOfInitContainer(injected[j].name))

\* helper was declared before proxy for a pod that came with one init container
C29_Witness ==
    /\ Patched
    /\ pass = 1
    /\ HasModeList(req.object)
    /\ req.object.annotations[injectAnnotation] = <<"helper", Comma, "proxy">>
    /\ Len(req.object.initContainers) = 1
    /\ Len(pod.initContainers) = 3
    /\ pod.initContainers[1].name = EnvoyConfigInitContainerName
    /\ pod.initContainers[2].name = SPIFFEHelperInitContainerName
    /\ pod.initContainers[3] = req.object.initContainers[1]

\* C30: two invocations of Handle on identical requests give responses that
\* are identical in decision, reason and mutated pod, the reason of a denial
\* with its enumeration of the allowed modes included.
C30_ResponseDeterminism ==
    \A i, j \in DOMAIN inv :
        (inv[i].pc = "done" /\ inv[j].pc = "done" /\ inv[i].req = inv[j].req) =>
            /\ inv[i].resp = inv[j].resp
            /\ copies[i] = copies[j]

====
